---- MODULE Spec2Model ----
(***************************************************************************)
(* Model of repairsapi/views/ticket_view.py: the TicketView view set       *)
(* (list, retrieve, create, update, destroy over ServiceTicket rows) and   *)
(* the three serializers that build its JSON representation.               *)
(*                                                                         *)
(* Two specifications are given.  Spec runs every handler as one atomic    *)
(* step (one request at a time).  SpecConc runs the handlers that write    *)
(* the ticket table, and takes those that make two storage accesses        *)
(* (update: get then save, destroy: get then delete) in two steps each, so *)
(* that requests interleave between storage accesses.  list and retrieve   *)
(* make one read and write nothing; they are handlers of Spec only.        *)
(***************************************************************************)
EXTENDS Integers, Sequences, FiniteSets, TLC

VARIABLES
    tickets,    \* ServiceTicket table: pk -> row
    customers,  \* Customer table: pk -> row (read only for this view)
    employees,  \* Employee table: pk -> row (read only for this view)
    nextId,     \* next value of the ServiceTicket auto-increment pk
    request,    \* the request last dispatched to the view: the parts of it the handler reads
    response,   \* the response last returned by the view
    inflight,   \* SpecConc: handler slot -> handler suspended between two storage accesses
    created,    \* history: pk -> customer pk, for tickets made by create and not destroyed since
    assigned,   \* history: pk -> employee pk of the latest successful update of such a ticket
    destroyed   \* history: pks for which destroy has returned 204

vars == <<tickets, customers, employees, nextId, request, response,
          inflight, created, assigned, destroyed>>

(***************************************************************************)
(* Bounds                                                                  *)
(***************************************************************************)
MaxTickets == 2     \* create is disabled once nextId exceeds this
MaxReq == 2         \* number of handler slots of SpecConc

(***************************************************************************)
(* Values                                                                  *)
(***************************************************************************)
NULL == 0                       \* a null foreign key / null date / unsaved pk
Users == {"staff", "alice", "bob", "guest"}
StaffUsers == {"staff"}         \* users with is_staff
Slots == 1 .. MaxReq
Pks == 1 .. (MaxTickets + 1)    \* pk values a request may carry
EmployeePks == {1, 2, 3}        \* employee ids a request may carry; 3 does not resolve

\* request.data of POST /tickets: any of the two keys may be missing
CreatePayloads ==
    { [description |-> "leaky faucet", emergency |-> FALSE],
      [description |-> "no heat", emergency |-> TRUE],
      [description |-> "leaky faucet"],
      [emergency |-> TRUE],
      <<>> }

\* request.data of PUT /tickets/pk
UpdatePayloads == { [employee |-> e] : e \in EmployeePks } \cup { <<>> }

\* request.query_params of GET /tickets
QueryParams == { <<>>, [status |-> "done"], [status |-> "all"], [status |-> "open"] }

InitCustomers ==
    (1 :> [id |-> 1, user |-> "alice", address |-> "1 Elm St", full_name |-> "Alice A"]) @@
    (2 :> [id |-> 2, user |-> "bob", address |-> "2 Oak St", full_name |-> "Bob B"])

InitEmployees ==
    (1 :> [id |-> 1, user |-> "staff", specialty |-> "plumbing", full_name |-> "Sam S"]) @@
    (2 :> [id |-> 2, user |-> "erin", specialty |-> "heating", full_name |-> "Erin E"])

\* Ticket tables the database may hold when the server starts: an empty
\* table, or one completed ticket entered outside this view (no handler
\* sets date_completed).
SeedTicket ==
    [id |-> 1, description |-> "cracked screen", emergency |-> FALSE,
     date_completed |-> 1, employee |-> 2, customer |-> 2]

InitialTables == { <<>>, (1 :> SeedTicket) }

(***************************************************************************)
(* Storage: the ORM calls the handlers make                                *)
(***************************************************************************)
\* Model.objects.get(pk=pk) finds a row
Exists(table, pk) == pk \in DOMAIN table

\* Customer.objects.get(user=user): the pk of the customer row, NULL when none
CustomerOf(user) ==
    IF \E c \in DOMAIN customers : customers[c].user = user
    THEN CHOOSE c \in DOMAIN customers : customers[c].user = user
    ELSE NULL

\* The instance as save() leaves it: an unsaved instance gets the next
\* auto-increment pk
Saved(obj) == IF obj.id = NULL THEN [obj EXCEPT !.id = nextId] ELSE obj

\* instance.save(): UPDATE the row with the instance's pk; when no row has
\* that pk (or the instance has none yet), INSERT the instance as a new row
Save(table, obj) ==
    IF Saved(obj).id \in DOMAIN table
    THEN [table EXCEPT ![obj.id] = obj]
    ELSE (Saved(obj).id :> Saved(obj)) @@ table

\* instance.delete(): DELETE the row with that pk, if any
Delete(table, pk) == [i \in (DOMAIN table) \ {pk} |-> table[i]]

\* Mutant of FilterDone: the filter with isnull=True
FilterDone_IsNullTrue(qs) == { t \in qs : tickets[t].date_completed = NULL }

\* QuerySet.filter(date_completed__isnull=False), as a set of pks
FilterDone(qs) == { t \in qs : tickets[t].date_completed # NULL }

\* Mutant of FilterByUser: the filter without the user
FilterByUser_AnyUser(user) ==
    { t \in DOMAIN tickets : tickets[t].customer \in DOMAIN customers }

\* ServiceTicket.objects.filter(customer__user=user), as a set of pks
FilterByUser(user) ==
    { t \in DOMAIN tickets :
        /\ tickets[t].customer \in DOMAIN customers
        /\ customers[tickets[t].customer].user = user }

(***************************************************************************)
(* Serializers                                                             *)
(***************************************************************************)
None == [none |-> TRUE]         \* Python None, JSON null

DateStrings == <<"2023-03-01">> \* ISO text of the dates a row may hold

TicketEmployeeSerializer(e) ==
    [id |-> e.id, specialty |-> e.specialty, full_name |-> e.full_name]

TicketCustomerSerializer(c) ==
    [id |-> c.id, address |-> c.address, full_name |-> c.full_name]

\* Mutant of TicketSerializer: the employee is never nested
TicketSerializer_NoEmployee(t) ==
    [id |-> t.id,
     description |-> t.description,
     emergency |-> t.emergency,
     date_completed |-> IF t.date_completed = NULL THEN "null"
                        ELSE DateStrings[t.date_completed],
     employee |-> None,
     customer |-> IF t.customer = NULL THEN None
                  ELSE TicketCustomerSerializer(customers[t.customer])]

\* TicketSerializer(ticket).data: the nested fields are None when the
\* foreign key is null
TicketSerializer(t) ==
    [id |-> t.id,
     description |-> t.description,
     emergency |-> t.emergency,
     date_completed |-> IF t.date_completed = NULL THEN "null"
                        ELSE DateStrings[t.date_completed],
     employee |-> IF t.employee = NULL THEN None
                  ELSE TicketEmployeeSerializer(employees[t.employee]),
     customer |-> IF t.customer = NULL THEN None
                  ELSE TicketCustomerSerializer(customers[t.customer])]

\* TicketSerializer(query_set, many=True).data.  The view asks for no
\* ordering, so the order of the rows is the database's choice; the list is
\* kept as the collection of its elements (one per row, pks being unique),
\* without an order.
SerializeMany(qs) == { TicketSerializer(tickets[t]) : t \in qs }

(***************************************************************************)
(* Responses                                                               *)
(***************************************************************************)
HTTP_200_OK == 200
HTTP_201_CREATED == 201
HTTP_204_NO_CONTENT == 204
HTTP_500_INTERNAL_SERVER_ERROR == 500

Response(data, status) == [status |-> status, data |-> data, exc |-> "none"]

\* An exception that leaves a handler.  No handler has a try/except, and
\* DoesNotExist and KeyError are neither APIException nor Http404, so the
\* view set's exception handling does not turn them into a 4xx response:
\* the request ends as a server error.
Unhandled(exc) ==
    [status |-> HTTP_500_INTERNAL_SERVER_ERROR, data |-> None, exc |-> exc]

NoRequest == [op |-> "none"]
Idle == [op |-> "idle"]

(***************************************************************************)
(* Handlers, one atomic step each                                          *)
(***************************************************************************)
Init ==
    /\ tickets \in InitialTables
    /\ customers = InitCustomers
    /\ employees = InitEmployees
    /\ nextId = Cardinality(DOMAIN tickets) + 1
    /\ request = NoRequest
    /\ response = Response(None, HTTP_200_OK)
    /\ inflight = [r \in Slots |-> Idle]
    /\ created = <<>>
    /\ assigned = <<>>
    /\ destroyed = {}

\* TicketView.destroy
Destroy(principal, pk) ==
    /\ request' = [op |-> "destroy", pk |-> pk]
    /\ IF ~Exists(tickets, pk)
       THEN /\ response' = Unhandled("DoesNotExist")
            /\ UNCHANGED <<tickets, created, assigned, destroyed>>
       ELSE /\ tickets' = Delete(tickets, pk)
            /\ response' = Response(None, HTTP_204_NO_CONTENT)
            /\ created' = Delete(created, pk)
            /\ assigned' = Delete(assigned, pk)
            /\ destroyed' = destroyed \cup {pk}
    /\ UNCHANGED <<customers, employees, nextId, inflight>>

\* Mutant of NewTicket: emergency is not taken from the payload
NewTicket_EmergencyDefault(customer, data) ==
    [id |-> NULL, description |-> data.description, emergency |-> FALSE,
     date_completed |-> NULL, employee |-> NULL, customer |-> customer]

\* Mutant of NewTicket: the new ticket is given an employee at once
NewTicket_AutoAssign(customer, data) ==
    [id |-> NULL, description |-> data.description, emergency |-> data.emergency,
     date_completed |-> NULL, employee |-> 1, customer |-> customer]

\* The instance create builds before it saves it
NewTicket(customer, data) ==
    [id |-> NULL, description |-> data.description, emergency |-> data.emergency,
     date_completed |-> NULL, employee |-> NULL, customer |-> customer]

\* TicketView.create
Create(principal, data) ==
    /\ nextId <= MaxTickets
    /\ request' = [op |-> "create", user |-> principal, data |-> data]
    /\ IF CustomerOf(principal) = NULL
       THEN /\ response' = Unhandled("DoesNotExist")
            /\ UNCHANGED <<tickets, nextId, created>>
       ELSE IF "description" \notin DOMAIN data \/ "emergency" \notin DOMAIN data
       THEN /\ response' = Unhandled("KeyError")
            /\ UNCHANGED <<tickets, nextId, created>>
       ELSE LET new_ticket == NewTicket(CustomerOf(principal), data) IN
            /\ tickets' = Save(tickets, new_ticket)
            /\ nextId' = nextId + 1
            /\ response' = Response(TicketSerializer(Saved(new_ticket)), HTTP_201_CREATED)
            /\ created' = (nextId :> CustomerOf(principal)) @@ created
    /\ UNCHANGED <<customers, employees, inflight, assigned, destroyed>>

\* The query set list serializes, as a set of pks
ListQuerySet(principal, params) ==
    IF principal \in StaffUsers
    THEN IF "status" \in DOMAIN params /\ params.status = "done"
         THEN FilterDone(DOMAIN tickets)
         ELSE DOMAIN tickets
    ELSE FilterByUser(principal)

\* TicketView.list
List(principal, params) ==
    /\ request' = [op |-> "list", user |-> principal, params |-> params]
    /\ response' = Response(SerializeMany(ListQuerySet(principal, params)), HTTP_200_OK)
    /\ UNCHANGED <<tickets, customers, employees, nextId, inflight,
                   created, assigned, destroyed>>

\* TicketView.retrieve
Retrieve(principal, pk) ==
    /\ request' = [op |-> "retrieve", pk |-> pk]
    /\ response' = IF ~Exists(tickets, pk)
                   THEN Unhandled("DoesNotExist")
                   ELSE Response(TicketSerializer(tickets[pk]), HTTP_200_OK)
    /\ UNCHANGED <<tickets, customers, employees, nextId, inflight,
                   created, assigned, destroyed>>

\* Mutant of AssignEmployee: an assigned ticket keeps its employee
AssignEmployee_OnlyIfUnassigned(ticket, employee_id) ==
    IF ticket.employee = NULL THEN [ticket EXCEPT !.employee = employee_id] ELSE ticket

\* ticket.employee = assigned_employee
AssignEmployee(ticket, employee_id) == [ticket EXCEPT !.employee = employee_id]

\* The exception update raises before it saves, "none" when it raises none
UpdateRaises(pk, data) ==
    IF ~Exists(tickets, pk) THEN "DoesNotExist"
    ELSE IF "employee" \notin DOMAIN data THEN "KeyError"
    ELSE IF ~Exists(employees, data.employee) THEN "DoesNotExist"
    ELSE "none"

\* The history of the latest successful update
NoteAssigned(pk, employee_id) ==
    IF pk \in DOMAIN created
    THEN (pk :> employee_id) @@ assigned
    ELSE assigned

\* TicketView.update
Update(principal, pk, data) ==
    /\ request' = [op |-> "update", pk |-> pk, data |-> data]
    /\ IF UpdateRaises(pk, data) # "none"
       THEN /\ response' = Unhandled(UpdateRaises(pk, data))
            /\ UNCHANGED <<tickets, assigned>>
       ELSE /\ tickets' = Save(tickets, AssignEmployee(tickets[pk], data.employee))
            /\ response' = Response(None, HTTP_204_NO_CONTENT)
            /\ assigned' = NoteAssigned(pk, data.employee)
    /\ UNCHANGED <<customers, employees, nextId, inflight, created, destroyed>>

Next ==
    \/ \E u \in Users, pk \in Pks : Destroy(u, pk)
    \/ \E u \in Users, d \in CreatePayloads : Create(u, d)
    \/ \E u \in Users, q \in QueryParams : List(u, q)
    \/ \E u \in Users, pk \in Pks : Retrieve(u, pk)
    \/ \E u \in Users, pk \in Pks, d \in UpdatePayloads : Update(u, pk, d)

Spec == Init /\ [][Next]_vars

(***************************************************************************)
(* Handlers of SpecConc: update and destroy in two steps, each step one    *)
(* storage access that the database runs atomically                        *)
(***************************************************************************)
\* TicketView.update up to ticket.employee = assigned_employee
UpdateGet(r, principal, pk, data) ==
    /\ inflight[r] = Idle
    /\ request' = [op |-> "update", pk |-> pk, data |-> data]
    /\ IF UpdateRaises(pk, data) # "none"
       THEN /\ response' = Unhandled(UpdateRaises(pk, data))
            /\ UNCHANGED inflight
       ELSE /\ inflight' = [inflight EXCEPT ![r] =
                    [op |-> "update",
                     ticket |-> AssignEmployee(tickets[pk], data.employee)]]
            /\ UNCHANGED response
    /\ UNCHANGED <<tickets, customers, employees, nextId, created, assigned, destroyed>>

\* TicketView.update from ticket.save()
UpdateSave(r) ==
    /\ inflight[r].op = "update"
    /\ tickets' = Save(tickets, inflight[r].ticket)
    /\ response' = Response(None, HTTP_204_NO_CONTENT)
    /\ assigned' = NoteAssigned(inflight[r].ticket.id, inflight[r].ticket.employee)
    /\ inflight' = [inflight EXCEPT ![r] = Idle]
    /\ UNCHANGED <<customers, employees, nextId, request, created, destroyed>>

\* TicketView.destroy up to ServiceTicket.objects.get
DestroyGet(r, principal, pk) ==
    /\ inflight[r] = Idle
    /\ request' = [op |-> "destroy", pk |-> pk]
    /\ IF ~Exists(tickets, pk)
       THEN /\ response' = Unhandled("DoesNotExist")
            /\ UNCHANGED inflight
       ELSE /\ inflight' = [inflight EXCEPT ![r] =
                    [op |-> "destroy", pk |-> pk]]
            /\ UNCHANGED response
    /\ UNCHANGED <<tickets, customers, employees, nextId, created, assigned, destroyed>>

\* TicketView.destroy from ticket.delete()
DestroyDelete(r) ==
    /\ inflight[r].op = "destroy"
    /\ tickets' = Delete(tickets, inflight[r].pk)
    /\ response' = Response(None, HTTP_204_NO_CONTENT)
    /\ created' = Delete(created, inflight[r].pk)
    /\ assigned' = Delete(assigned, inflight[r].pk)
    /\ destroyed' = destroyed \cup {inflight[r].pk}
    /\ inflight' = [inflight EXCEPT ![r] = Idle]
    /\ UNCHANGED <<customers, employees, nextId, request>>

NextConc ==
    \/ \E u \in Users, d \in CreatePayloads : Create(u, d)
    \/ \E r \in Slots, u \in Users, pk \in Pks, d \in UpdatePayloads : UpdateGet(r, u, pk, d)
    \/ \E r \in Slots : UpdateSave(r)
    \/ \E r \in Slots, u \in Users, pk \in Pks : DestroyGet(r, u, pk)
    \/ \E r \in Slots : DestroyDelete(r)

SpecConc == Init /\ [][NextConc]_vars

TypeOK ==
    /\ DOMAIN tickets \subseteq 1 .. MaxTickets
    /\ nextId \in 1 .. (MaxTickets + 1)
    /\ \A t \in DOMAIN tickets : tickets[t].id = t

(***************************************************************************)
(* Properties                                                              *)
(***************************************************************************)
\* The pks of the representations in a list response
IdsOf(data) == { d.id : d \in data }

\* The tickets whose owning customer is the customer linked to user
OwnedBy(user) ==
    { t \in DOMAIN tickets :
        CustomerOf(user) # NULL /\ tickets[t].customer = CustomerOf(user) }

IsStatus(params, value) == "status" \in DOMAIN params /\ params.status = value

\* C1: after list by a non-staff principal, the response is 200 and holds
\* exactly the tickets owned by the principal's customer, none of another
\* customer, whatever the status parameter is.
C1_NonStaffListOwnTickets ==
    (request.op = "list" /\ request.user \notin StaffUsers) =>
        /\ response.status = HTTP_200_OK
        /\ IdsOf(response.data) = OwnedBy(request.user)
        /\ Cardinality(response.data) = Cardinality(OwnedBy(request.user))
        /\ \A d \in response.data : d.customer.id = CustomerOf(request.user)

C1_Witness ==
    /\ request.op = "list"
    /\ request.user = "alice"
    /\ IsStatus(request.params, "done")
    /\ response.data # {}
    /\ \E t \in DOMAIN tickets : tickets[t].customer # CustomerOf("alice")
    /\ \E t \in OwnedBy("alice") : tickets[t].date_completed = NULL

\* C2: retrieve, update and destroy of a pk that is no stored ticket, and
\* update of a stored ticket with an employee pk that is no employee, answer
\* 404 and leave the ticket table as it was.
C2_MissingIdIsNotFound ==
    [][ ( /\ request'.op \in {"retrieve", "update", "destroy"}
          /\ \/ request'.pk \notin DOMAIN tickets
             \/ /\ request'.op = "update"
                /\ "employee" \in DOMAIN request'.data
                /\ request'.data.employee \notin DOMAIN employees )
        => (response'.status = 404 /\ tickets' = tickets) ]_vars

\* C3: create by a principal with a customer and a payload with both keys
\* adds one ticket with that customer, the payload's description and
\* emergency, no employee and no completion date, changes no other ticket,
\* and answers 201 with the representation of the new ticket.
C3_CreatePersistsTicket ==
    [][ ( /\ request'.op = "create"
          /\ CustomerOf(request'.user) # NULL
          /\ {"description", "emergency"} \subseteq DOMAIN request'.data )
        => /\ Cardinality(DOMAIN tickets' \ DOMAIN tickets) = 1
           /\ \A t \in DOMAIN tickets : t \in DOMAIN tickets' /\ tickets'[t] = tickets[t]
           /\ \A n \in DOMAIN tickets' \ DOMAIN tickets :
                 /\ tickets'[n].id = n
                 /\ tickets'[n].customer = CustomerOf(request'.user)
                 /\ tickets'[n].description = request'.data.description
                 /\ tickets'[n].emergency = request'.data.emergency
                 /\ tickets'[n].employee = NULL
                 /\ tickets'[n].date_completed = NULL
                 /\ response'.status = 201
                 /\ response'.data.id = n
                 /\ response'.data.description = request'.data.description
                 /\ response'.data.emergency = request'.data.emergency
                 /\ response'.data.employee = None
                 /\ response'.data.date_completed = "null"
                 /\ response'.data.customer.id = CustomerOf(request'.user) ]_vars

C3_Witness ==
    /\ request.op = "create"
    /\ response.status = 201
    /\ request.user = "alice"
    /\ request.data.emergency = TRUE
    /\ Cardinality(DOMAIN tickets) = 2
    /\ \E t \in DOMAIN tickets : tickets[t].employee # NULL

\* C4: create with description missing, emergency missing, or a principal
\* without a customer answers 400 and persists nothing.
C4_CreateBadRequest ==
    [][ ( /\ request'.op = "create"
          /\ \/ "description" \notin DOMAIN request'.data
             \/ "emergency" \notin DOMAIN request'.data
             \/ CustomerOf(request'.user) = NULL )
        => (response'.status = 400 /\ tickets' = tickets) ]_vars

\* C5: after list by a staff principal, the response is 200 and holds the
\* completed tickets when status is "done" and every stored ticket for any
\* other or no status; an empty table gives an empty list.
C5_StaffList ==
    (request.op = "list" /\ request.user \in StaffUsers) =>
        /\ response.status = 200
        /\ IF IsStatus(request.params, "done")
           THEN /\ IdsOf(response.data) =
                       { t \in DOMAIN tickets : tickets[t].date_completed # NULL }
                /\ \A d \in response.data : d.date_completed # "null"
           ELSE /\ IdsOf(response.data) = DOMAIN tickets
                /\ Cardinality(response.data) = Cardinality(DOMAIN tickets)
        /\ (DOMAIN tickets = {}) => (response.data = {})

C5_Witness ==
    /\ request.op = "list"
    /\ request.user = "staff"
    /\ IsStatus(request.params, "done")
    /\ response.data # {}
    /\ \E t \in DOMAIN tickets : tickets[t].date_completed = NULL

\* C6: update of a stored ticket with a stored employee answers 204 with
\* no body and sets that employee on the ticket, whatever employee it had;
\* the ticket's other fields and all other tickets stay as they were.
C6_UpdateAssignsEmployee ==
    [][ ( /\ request'.op = "update"
          /\ request'.pk \in DOMAIN tickets
          /\ "employee" \in DOMAIN request'.data
          /\ request'.data.employee \in DOMAIN employees )
        => /\ response'.status = 204
           /\ response'.data = None
           /\ DOMAIN tickets' = DOMAIN tickets
           /\ tickets'[request'.pk].employee = request'.data.employee
           /\ tickets'[request'.pk] =
                 [tickets[request'.pk] EXCEPT !.employee = request'.data.employee]
           /\ \A t \in DOMAIN tickets \ {request'.pk} : tickets'[t] = tickets[t] ]_vars

\* a ticket that had employee 2 now has employee 1, by the update just made
C6_Witness ==
    /\ request.op = "update"
    /\ request.pk = 1
    /\ response.status = 204
    /\ tickets[1].date_completed # NULL
    /\ tickets[1].employee = 1
    /\ Cardinality(DOMAIN tickets) = 2

\* C7: over any step, every stored ticket has one owning customer, the
\* customer of the principal that created it, which never changes; its
\* employee is null when it is created and changes only by a successful
\* update of that ticket.
C7_OwnerAndEmployee ==
    [][ \A t \in DOMAIN tickets' :
          /\ tickets'[t].customer \in DOMAIN customers'
          /\ tickets'[t].employee \in {NULL} \cup DOMAIN employees'
          /\ IF t \in DOMAIN tickets
             THEN /\ tickets'[t].customer = tickets[t].customer
                  /\ (tickets'[t].employee # tickets[t].employee) =>
                        /\ request'.op = "update"
                        /\ request'.pk = t
                        /\ response'.status = 204
             ELSE /\ request'.op = "create"
                  /\ tickets'[t].customer = CustomerOf(request'.user)
                  /\ tickets'[t].employee = NULL ]_vars

C7_Witness ==
    /\ request.op = "update"
    /\ response.status = 204
    /\ request.pk \in DOMAIN created
    /\ \E t \in DOMAIN created : t # request.pk /\ tickets[t].employee = NULL

\* C8: a ticket made by create and not destroyed since is in the table; a
\* staff list with status=all holds it; retrieve of its pk answers 200 with
\* that pk, the creating customer's pk and the employee of the latest
\* successful update of it.
C8_CreatedTicketVisible ==
    \A t \in DOMAIN created :
        /\ t \in DOMAIN tickets
        /\ ( /\ request.op = "list"
             /\ request.user \in StaffUsers
             /\ IsStatus(request.params, "all") ) => t \in IdsOf(response.data)
        /\ (request.op = "retrieve" /\ request.pk = t) =>
              /\ response.status = 200
              /\ response.data.id = t
              /\ response.data.customer.id = created[t]
              /\ t \in DOMAIN assigned =>
                    /\ response.data.employee # None
                    /\ response.data.employee.id = assigned[t]

C8_Witness ==
    /\ request.op = "retrieve"
    /\ request.pk \in DOMAIN assigned
    /\ response.status = 200
    /\ response.data.employee.id = 2
    /\ response.data.customer.id = 1

\* C9: destroy of a stored ticket removes that ticket only, answers 204
\* with no body and changes no customer or employee; afterwards retrieve,
\* update and destroy of that pk answer 404 and no list holds it.
C9_DestroyRemovesTicket ==
    [][ /\ (request'.op = "destroy" /\ request'.pk \in DOMAIN tickets) =>
              /\ response'.status = 204
              /\ response'.data = None
              /\ tickets' = [t \in DOMAIN tickets \ {request'.pk} |-> tickets[t]]
              /\ customers' = customers
              /\ employees' = employees
        /\ ( /\ request'.op \in {"retrieve", "update", "destroy"}
             /\ request'.pk \in destroyed ) => response'.status = 404
        /\ (request'.op = "list") => IdsOf(response'.data) \cap destroyed = {} ]_vars

\* C10: once destroy of a pk has answered 204, no ticket with that pk is in
\* the table, however the storage accesses of concurrent requests interleave.
C10_DestroyedStaysAbsent == destroyed \cap DOMAIN tickets = {}

====
